---- MODULE Spec2Model ----
(***************************************************************************)
(* Model of app/retrieve_motion_events.py: the typed configuration         *)
(* accessor, the SMS alert sink with its cooldown, the touchfile trigger,  *)
(* the disk-space monitor and the real-time monitoring loop of             *)
(* MotionEventRetriever.monitor_realtime.                                  *)
(*                                                                         *)
(* Threads.  The monitoring coroutine and the camera's push callback run   *)
(* on the asyncio event-loop thread: the callback can only run while the   *)
(* coroutine is suspended at an await (pc \in AwaitPcs).  send_sms runs    *)
(* in the executor's worker threads (run_in_executor), concurrently with   *)
(* everything else; it is split at the provider call into a begin and an   *)
(* end step.                                                               *)
(***************************************************************************)
EXTENDS Integers, Sequences, FiniteSets, TLC

(***************************************************************************)
(* Bounds of the model.                                                    *)
(***************************************************************************)
\* Reading of the wall clock (get_time()) when monitoring starts.
StartTime == 1000
\* Wall-clock seconds that may pass on top of the time the loop sleeps.
MaxDrift == 1
\* Ticks of the loop that are explored when the duration is 0 (infinite).
MaxTicks == 2
\* Motion SMS tasks in flight at the same time.
MaxTasks == 1
\* Length of the recorded event list.
MaxEvents == 2
\* Largest short SMS_COOLDOWN configured (the default is configured too).
MaxCooldown == 1
\* Largest configured TOUCHFILE_CHECK_INTERVAL / DISK_MONITOR_CHECK_INTERVAL.
MaxInterval == 1
\* A MONITOR_DURATION shorter than the motion poll interval.
ShortRun == 2
\* A MONITOR_DURATION longer than the motion poll interval.
LongRun == 12
\* Longest touchfile content.
MaxContentLen == 1
\* Size of the monitored filesystem, in blocks.
DiskTotal == 10
\* format_duration is explored for 0..MaxSeconds and for values around
\* the minute, the hour and the day.
MaxSeconds == 90
\* Most recordings a search returns.
MaxRecordings == 6

(***************************************************************************)
(* Program constants.                                                      *)
(***************************************************************************)
\* check_interval = 60 (status log interval and sleep without touchfile).
check_interval == 60
\* next_motion_poll = 10 / elapsed + 10.
motion_poll_interval == 10
\* CAMERA_CHANNEL default.
Channel == 0
\* DISK_MONITOR_THRESHOLD default.
DefaultThreshold == 90
\* SMS_COOLDOWN default.
DefaultCooldown == 300
\* max_downloads = 5
max_downloads == 5

Min(a, b) == IF a <= b THEN a ELSE b

(***************************************************************************)
(* dict.get / dict[k] = v on last_motion_state.                            *)
(***************************************************************************)
EmptyDict == [k \in {} |-> FALSE]
Get(d, k, default) == IF k \in DOMAIN d THEN d[k] ELSE default
Put(d, k, v) == [x \in (DOMAIN d) \cup {k} |-> IF x = k THEN v ELSE d[x]]

(***************************************************************************)
(* Strings are sequences of characters.  str.strip() removes leading and   *)
(* trailing whitespace.                                                    *)
(***************************************************************************)
Whitespace == {" ", "\n", "\t"}
ContentAlphabet == {"a", " "}
SeqsUpTo(S, n) == UNION {[1..k -> S] : k \in 0..n}
Contents == SeqsUpTo(ContentAlphabet, MaxContentLen)

RECURSIVE LStrip(_)
LStrip(s) == IF s # <<>> /\ Head(s) \in Whitespace THEN LStrip(Tail(s)) ELSE s
RECURSIVE RStrip(_)
RStrip(s) ==
    IF s # <<>> /\ s[Len(s)] \in Whitespace
    THEN RStrip(SubSeq(s, 1, Len(s) - 1))
    ELSE s
Strip(s) == RStrip(LStrip(s))

(***************************************************************************)
(* get_config_value.  A Python value is None, a str, a bool or a number;   *)
(* load_env stores strings only.  Strings are over the letters of the      *)
(* boolean words, in both cases, and three digits.                         *)
(***************************************************************************)
None == [t |-> "None", s |-> <<>>, b |-> FALSE, n |-> 0]
StrValue(x) == [t |-> "str", s |-> x, b |-> FALSE, n |-> 0]
BoolValue(x) == [t |-> "bool", s |-> <<>>, b |-> x, n |-> 0]
IntValue(x) == [t |-> "int", s |-> <<>>, b |-> FALSE, n |-> x]
FloatValue(x) == [t |-> "float", s |-> <<>>, b |-> FALSE, n |-> x]

\* str.lower()
LowerChar(c) ==
    CASE c = "T" -> "t" [] c = "R" -> "r" [] c = "U" -> "u" [] c = "E" -> "e"
      [] c = "Y" -> "y" [] c = "S" -> "s" [] c = "O" -> "o" [] c = "N" -> "n"
      [] c = "F" -> "f" [] c = "A" -> "a" [] c = "L" -> "l" [] OTHER -> c
Lower(x) == [i \in DOMAIN x |-> LowerChar(x[i])]

\* ('true', '1', 'yes', 'on')
TrueWords == {<<"t", "r", "u", "e">>, <<"1">>, <<"y", "e", "s">>, <<"o", "n">>}

\* The decimal numerals int() and float() accept among the strings above.
Digits == {"0", "1", "2"}
DigitValue(c) == CASE c = "0" -> 0 [] c = "1" -> 1 [] c = "2" -> 2
IsNumeral(x) == x # <<>> /\ \A i \in DOMAIN x : x[i] \in Digits
RECURSIVE NumeralValue(_)
NumeralValue(x) ==
    IF x = <<>> THEN 0
    ELSE 10 * NumeralValue(SubSeq(x, 1, Len(x) - 1)) + DigitValue(x[Len(x)])

\* Outcomes of a call.
Pending == [st |-> "pending", value |-> None, error |-> "none"]
Returned(v) == [st |-> "returned", value |-> v, error |-> "none"]
Raised(e) == [st |-> "raised", value |-> None, error |-> e]

\* value.lower() in ('true', '1', 'yes', 'on'): only a str has lower().
ToBool(value) ==
    IF value.t = "str"
    THEN Returned(BoolValue(Lower(value.s) \in TrueWords))
    ELSE Raised("AttributeError")

\* The number int(value) and float(value) convert value to, where they do.
Numeric(value) == value.t \in {"int", "float"} \/ value.t = "bool"
                     \/ (value.t = "str" /\ IsNumeral(value.s))
NumberOf(value) ==
    CASE value.t = "str" -> NumeralValue(value.s)
      [] value.t = "bool" -> IF value.b THEN 1 ELSE 0
      [] OTHER -> value.n
ToInt(value) ==
    IF Numeric(value) THEN Returned(IntValue(NumberOf(value)))
    ELSE Raised("ValueError")
ToFloat(value) ==
    IF Numeric(value) THEN Returned(FloatValue(NumberOf(value)))
    ELSE Raised("ValueError")

get_config_value(config, key, default, value_type) ==
    LET value == Get(config, key, default)
    IN  IF value = None THEN Returned(None)
        ELSE IF value_type = "bool" THEN ToBool(value)
        ELSE IF value_type = "int" THEN ToInt(value)
        ELSE IF value_type = "float" THEN ToFloat(value)
        ELSE Returned(value)

\* The calls explored: a .env file with at most one setting, the defaults
\* main() passes (none, False, a number, a string) and True.
StoredStrings ==
    {<<"t", "r", "u", "e">>, <<"T", "r", "u", "e">>, <<"T", "R", "U", "E">>,
     <<"t", "R", "u", "E">>, <<"1">>, <<"y", "e", "s">>, <<"Y", "e", "s">>,
     <<"Y", "E", "S">>, <<"o", "n">>, <<"O", "n">>, <<"O", "N">>,
     <<"o", "N">>, <<"f", "a", "l", "s", "e">>, <<"F", "a", "l", "s", "e">>,
     <<"0">>, <<"n", "o">>, <<"N", "O">>, <<"o", "f", "f">>, <<>>, <<"2">>,
     <<"1", "0">>, <<"y">>, <<"t", "r", "u">>, <<"t", "r", "u", "e", "e">>,
     <<"y", "e", "s", "s">>, <<"o">>, <<"t">>}
Keys == {"DOWNLOAD_RECORDINGS", "SMS_ON_MOTION"}
Configs ==
    {EmptyDict}
    \cup {Put(EmptyDict, k, StrValue(x)) : k \in Keys, x \in StoredStrings}
Defaults == {None, BoolValue(FALSE), BoolValue(TRUE), IntValue(5), StrValue(<<>>)}
ValueTypes == {"str", "bool", "int", "float"}
NoCall ==
    [config |-> EmptyDict, key |-> "none", default |-> None,
     value_type |-> "str", result |-> Pending]
Calls ==
    {[config |-> c, key |-> k, default |-> d, value_type |-> vt,
      result |-> Pending] :
        c \in Configs, k \in Keys, d \in Defaults, vt \in ValueTypes}

(***************************************************************************)
(* format_duration.  The result is the list of its parts, each a number    *)
(* with its unit, which the code joins with spaces.                        *)
(***************************************************************************)
Part(value, unit) == [value |-> value, unit |-> unit]
PartIf(cond, value, unit) == IF cond THEN <<Part(value, unit)>> ELSE <<>>

\* Mutant: the hours are not reduced modulo the day.
format_duration_total_hours(seconds) ==
    LET days == seconds \div 86400
        hours == seconds \div 3600
        minutes == (seconds % 3600) \div 60
        secs == seconds % 60
        parts == PartIf(days > 0, days, "d") \o PartIf(hours > 0, hours, "h")
                    \o PartIf(minutes > 0, minutes, "m")
    IN  parts \o PartIf(secs > 0 \/ parts = <<>>, secs, "s")

format_duration(seconds) ==
    LET days == seconds \div 86400
        hours == (seconds % 86400) \div 3600
        minutes == (seconds % 3600) \div 60
        secs == seconds % 60
        parts == PartIf(days > 0, days, "d") \o PartIf(hours > 0, hours, "h")
                    \o PartIf(minutes > 0, minutes, "m")
    IN  parts \o PartIf(secs > 0 \/ parts = <<>>, secs, "s")

(***************************************************************************)
(* download_recording: the label of the file name, from the recording's    *)
(* trigger flags (a set of tags; the empty set is falsy).                  *)
(***************************************************************************)
Tags == {"motion", "person", "vehicle", "animal", "package", "doorbell"}

\* Mutant: the first tag that matches wins.
trigger_str_first_match(bc_triggers) ==
    IF "motion" \in bc_triggers THEN "motion"
    ELSE IF "person" \in bc_triggers THEN "person"
    ELSE IF "vehicle" \in bc_triggers THEN "vehicle"
    ELSE "recording"

trigger_str(bc_triggers) ==
    LET s0 == "recording"
        s1 == IF "motion" \in bc_triggers THEN "motion" ELSE s0
        s2 == IF "person" \in bc_triggers THEN "person" ELSE s1
        s3 == IF "vehicle" \in bc_triggers THEN "vehicle" ELSE s2
    IN  IF bc_triggers # {} THEN s3 ELSE s0

\* The calls of the two functions explored.
NoResult == [st |-> "pending", parts |-> <<>>, label |-> "none"]
NoPureCall ==
    [fn |-> "none", seconds |-> 0, bc_triggers |-> {}, result |-> NoResult]
DurationCall(n) ==
    [fn |-> "format_duration", seconds |-> n, bc_triggers |-> {},
     result |-> NoResult]
LabelCall(tags) ==
    [fn |-> "trigger_str", seconds |-> 0, bc_triggers |-> tags,
     result |-> NoResult]
DurationInputs ==
    (0..MaxSeconds)
    \cup {m * 60 + e : m \in 1..2, e \in 0..1}
    \cup {3599, 3600, 3601, 3660, 3661, 7200}
    \cup {86399, 86400, 86401, 86460, 86461, 90000, 90061, 172800}
PureCalls ==
    {DurationCall(n) : n \in DurationInputs}
    \cup {LabelCall(tags) : tags \in SUBSET Tags}

(***************************************************************************)
(* SMS messages: the text of a touchfile, the default manual alert with    *)
(* its time stamp, the motion alert, the disk alert (the texts of the last *)
(* two are not modelled).                                                  *)
(***************************************************************************)
NoMsg == [kind |-> "none", body |-> <<>>, at |-> 0]
TextMsg(c) == [kind |-> "text", body |-> c, at |-> 0]
ManualMsg(ts) == [kind |-> "manual", body |-> <<>>, at |-> ts]
MotionMsg == [kind |-> "motion", body |-> <<>>, at |-> 0]
DiskMsg == [kind |-> "disk", body |-> <<>>, at |-> 0]

(***************************************************************************)
(* A send_sms call handed to the executor.                                 *)
(*   st: queued (not started), calling (inside messages.create), done      *)
(*   t: current_time read by the call; called: the provider was called;    *)
(*   ok: the value returned.                                               *)
(***************************************************************************)
NoJob ==
    [kind |-> "none", force |-> FALSE, st |-> "none", t |-> 0,
     called |-> FALSE, ok |-> FALSE, msg |-> NoMsg]
NewJob(kind, force, msg) ==
    [kind |-> kind, force |-> force, st |-> "queued", t |-> 0,
     called |-> FALSE, ok |-> FALSE, msg |-> msg]

VARIABLES
    \* MotionEventRetriever fields
    twilio_client, sms_on_motion, sms_cooldown, last_sms_time,
    touchfile_enabled, touchfile_check_interval,
    disk_monitor_enabled, disk_monitor_threshold, disk_monitor_check_interval,
    last_disk_alert_time, motion_events, last_motion_state,
    \* monitor_realtime: argument, locals, position, outcome
    duration_seconds, pc, elapsed, sleep_time,
    next_touchfile_check, next_status_log, next_motion_poll, next_disk_check,
    exit_reason, unsub, ret,
    \* check_touchfile / check_disk_space: locals and the calls they made
    tf_obs, usage, disk_time,
    \* executor: the send awaited by the loop, the motion SMS tasks
    mainJob, tasks,
    \* environment: wall clock, camera motion state, touchfile on disk
    now, motion, touchfile,
    \* a call of get_config_value: its arguments and its outcome
    accessor,
    \* a call of format_duration or of download_recording's file naming
    call,
    \* main(): its position, its locals, the calls it made to the camera
    \* client, the inputs of the retriever's construction, its outcome
    run

retrieverVars ==
    <<twilio_client, sms_on_motion, sms_cooldown, last_sms_time,
      touchfile_enabled, touchfile_check_interval,
      disk_monitor_enabled, disk_monitor_threshold,
      disk_monitor_check_interval, last_disk_alert_time,
      motion_events, last_motion_state>>
configVars ==
    <<twilio_client, sms_on_motion, sms_cooldown,
      touchfile_enabled, touchfile_check_interval,
      disk_monitor_enabled, disk_monitor_threshold,
      disk_monitor_check_interval, duration_seconds>>
loopVars ==
    <<duration_seconds, pc, elapsed, sleep_time, next_touchfile_check,
      next_status_log, next_motion_poll, next_disk_check, exit_reason,
      unsub, ret>>
checkVars == <<tf_obs, usage, disk_time>>
jobVars == <<mainJob, tasks>>
envVars == <<now, motion, touchfile>>
monitorVars == <<retrieverVars, loopVars, checkVars, jobVars, envVars>>
outsideVars == <<accessor, call, run>>
vars == <<monitorVars, outsideVars>>

(***************************************************************************)
(* Construction: MotionEventRetriever.__init__ and _setup_twilio.          *)
(* A twilio_config gives, for each credential and for the touchfile path,  *)
(* whether the string is non-empty.                                        *)
(***************************************************************************)
Cooldowns == (1..MaxCooldown) \cup {DefaultCooldown}
TouchIntervals == 0..MaxInterval
DiskIntervals == 1..MaxInterval
Durations == {0, ShortRun, LongRun}

TwilioConfigs ==
    [account_sid : BOOLEAN, auth_token : BOOLEAN,
     from_number : BOOLEAN, to_number : BOOLEAN,
     sms_on_motion : BOOLEAN, sms_cooldown : Cooldowns,
     touchfile_path : BOOLEAN, touchfile_check_interval : TouchIntervals,
     disk_monitor_enabled : BOOLEAN,
     disk_monitor_threshold : {DefaultThreshold},
     disk_monitor_check_interval : DiskIntervals]

InitFields ==
    [twilio_client |-> FALSE, sms_on_motion |-> FALSE, sms_cooldown |-> 300,
     touchfile_enabled |-> FALSE, touchfile_check_interval |-> 5,
     disk_monitor_enabled |-> FALSE, disk_monitor_threshold |-> 90,
     disk_monitor_check_interval |-> 3600]

\* Mutant: a constructor that raised resets the client only, the features
\* already set.
setup_twilio_features_kept(config, TWILIO_AVAILABLE, ctor_ok) ==
    IF ~config.sms_on_motion THEN InitFields
    ELSE IF ~TWILIO_AVAILABLE THEN InitFields
    ELSE IF ~(config.account_sid /\ config.auth_token
              /\ config.from_number /\ config.to_number) THEN InitFields
    ELSE [twilio_client |-> ctor_ok,
          sms_on_motion |-> config.sms_on_motion,
          sms_cooldown |-> config.sms_cooldown,
          touchfile_enabled |-> config.touchfile_path,
          touchfile_check_interval |->
              IF config.touchfile_path
              THEN config.touchfile_check_interval
              ELSE InitFields.touchfile_check_interval,
          disk_monitor_enabled |-> config.disk_monitor_enabled,
          disk_monitor_threshold |->
              IF config.disk_monitor_enabled
              THEN config.disk_monitor_threshold
              ELSE InitFields.disk_monitor_threshold,
          disk_monitor_check_interval |->
              IF config.disk_monitor_enabled
              THEN config.disk_monitor_check_interval
              ELSE InitFields.disk_monitor_check_interval]

\* Mutant: one credential is enough.
setup_twilio_partial_credentials(config, TWILIO_AVAILABLE, ctor_ok) ==
    IF ~config.sms_on_motion THEN InitFields
    ELSE IF ~TWILIO_AVAILABLE THEN InitFields
    ELSE IF ~(config.account_sid \/ config.auth_token
              \/ config.from_number \/ config.to_number) THEN InitFields
    ELSE IF ~ctor_ok THEN InitFields
    ELSE [twilio_client |-> TRUE,
          sms_on_motion |-> config.sms_on_motion,
          sms_cooldown |-> config.sms_cooldown,
          touchfile_enabled |-> config.touchfile_path,
          touchfile_check_interval |->
              IF config.touchfile_path
              THEN config.touchfile_check_interval
              ELSE InitFields.touchfile_check_interval,
          disk_monitor_enabled |-> config.disk_monitor_enabled,
          disk_monitor_threshold |->
              IF config.disk_monitor_enabled
              THEN config.disk_monitor_threshold
              ELSE InitFields.disk_monitor_threshold,
          disk_monitor_check_interval |->
              IF config.disk_monitor_enabled
              THEN config.disk_monitor_check_interval
              ELSE InitFields.disk_monitor_check_interval]

\* TWILIO_AVAILABLE: the import succeeded; ctor_ok: TwilioClient(...) did
\* not raise.
setup_twilio(config, TWILIO_AVAILABLE, ctor_ok) ==
    IF ~config.sms_on_motion THEN InitFields
    ELSE IF ~TWILIO_AVAILABLE THEN InitFields
    ELSE IF ~(config.account_sid /\ config.auth_token
              /\ config.from_number /\ config.to_number) THEN InitFields
    ELSE IF ~ctor_ok THEN InitFields
    ELSE [twilio_client |-> TRUE,
          sms_on_motion |-> config.sms_on_motion,
          sms_cooldown |-> config.sms_cooldown,
          touchfile_enabled |-> config.touchfile_path,
          touchfile_check_interval |->
              IF config.touchfile_path
              THEN config.touchfile_check_interval
              ELSE InitFields.touchfile_check_interval,
          disk_monitor_enabled |-> config.disk_monitor_enabled,
          disk_monitor_threshold |->
              IF config.disk_monitor_enabled
              THEN config.disk_monitor_threshold
              ELSE InitFields.disk_monitor_threshold,
          disk_monitor_check_interval |->
              IF config.disk_monitor_enabled
              THEN config.disk_monitor_check_interval
              ELSE InitFields.disk_monitor_check_interval]

(***************************************************************************)
(* main().  The .env files explored set or leave out the settings whose    *)
(* reading can end the process or decides a phase; the three other Twilio  *)
(* credentials are set.  A recording is its file name (its index in the    *)
(* search result) and its trigger flags.                                   *)
(***************************************************************************)
Unset == <<"unset">>
EnvFile(password, duration, download, sms, disk, sid) ==
    LET all == [CAMERA_PASSWORD |-> password,
                MONITOR_DURATION |-> duration,
                DOWNLOAD_RECORDINGS |-> download,
                SMS_ON_MOTION |-> sms,
                DISK_MONITOR_ENABLED |-> disk,
                TWILIO_ACCOUNT_SID |-> sid,
                TWILIO_AUTH_TOKEN |-> <<"x">>,
                TWILIO_FROM_NUMBER |-> <<"x">>,
                TWILIO_TO_NUMBER |-> <<"x">>]
    IN  [k \in {x \in DOMAIN all : all[x] # Unset} |-> StrValue(all[k])]
EnvFiles ==
    {EnvFile(password, duration, download, sms, disk, sid) :
        password \in {Unset, <<>>, <<"p", "w">>},
        duration \in {Unset, <<"0">>, <<"x">>},
        download \in {Unset, <<"t", "r", "u", "e">>, <<"o", "f", "f">>},
        sms \in {Unset, <<"y", "e", "s">>},
        disk \in {Unset, <<"n", "o">>},
        sid \in {Unset, <<"x">>}}

\* The settings main() reads, with the default and the type it passes.
Settings ==
    <<[key |-> "CAMERA_PASSWORD", default |-> None, value_type |-> "str"],
      [key |-> "MONITOR_DURATION", default |-> IntValue(300),
       value_type |-> "int"],
      [key |-> "DOWNLOAD_RECORDINGS", default |-> BoolValue(FALSE),
       value_type |-> "bool"],
      [key |-> "TWILIO_ACCOUNT_SID", default |-> StrValue(<<>>),
       value_type |-> "str"],
      [key |-> "TWILIO_AUTH_TOKEN", default |-> StrValue(<<>>),
       value_type |-> "str"],
      [key |-> "TWILIO_FROM_NUMBER", default |-> StrValue(<<>>),
       value_type |-> "str"],
      [key |-> "TWILIO_TO_NUMBER", default |-> StrValue(<<>>),
       value_type |-> "str"],
      [key |-> "SMS_ON_MOTION", default |-> BoolValue(FALSE),
       value_type |-> "bool"],
      [key |-> "DISK_MONITOR_ENABLED", default |-> BoolValue(FALSE),
       value_type |-> "bool"]>>
Setting(config, key) ==
    LET i == CHOOSE n \in DOMAIN Settings : Settings[n].key = key
    IN  get_config_value(config, key, Settings[i].default,
                         Settings[i].value_type)
SettingRaises(config) ==
    \E i \in DOMAIN Settings :
        Setting(config, Settings[i].key).st = "raised"

\* Python truth of a value: not value is true for None, '', False, 0.
Truthy(value) ==
    CASE value.t = "None" -> FALSE
      [] value.t = "str" -> value.s # <<>>
      [] value.t = "bool" -> value.b
      [] OTHER -> value.n # 0

\* Mutant: only an absent password is refused.
PasswordMissingAbsentOnly(password) == password = None

\* if not password
PasswordMissing(password) == ~Truthy(password)

\* twilio_config as main() builds it; the settings not explored have
\* their defaults.
TwilioConfigOf(config) ==
    [account_sid |-> Truthy(Setting(config, "TWILIO_ACCOUNT_SID").value),
     auth_token |-> Truthy(Setting(config, "TWILIO_AUTH_TOKEN").value),
     from_number |-> Truthy(Setting(config, "TWILIO_FROM_NUMBER").value),
     to_number |-> Truthy(Setting(config, "TWILIO_TO_NUMBER").value),
     sms_on_motion |-> Setting(config, "SMS_ON_MOTION").value.b,
     sms_cooldown |-> DefaultCooldown,
     touchfile_path |-> FALSE,
     touchfile_check_interval |-> InitFields.touchfile_check_interval,
     disk_monitor_enabled |-> Setting(config, "DISK_MONITOR_ENABLED").value.b,
     disk_monitor_threshold |-> DefaultThreshold,
     disk_monitor_check_interval |-> InitFields.disk_monitor_check_interval]
NoTwilioConfig ==
    [account_sid |-> FALSE, auth_token |-> FALSE, from_number |-> FALSE,
     to_number |-> FALSE, sms_on_motion |-> FALSE,
     sms_cooldown |-> DefaultCooldown, touchfile_path |-> FALSE,
     touchfile_check_interval |-> InitFields.touchfile_check_interval,
     disk_monitor_enabled |-> FALSE,
     disk_monitor_threshold |-> DefaultThreshold,
     disk_monitor_check_interval |-> InitFields.disk_monitor_check_interval]

\* The search result explored: n recordings, their flags taken in turn
\* from TriggerCycle.
TriggerCycle ==
    <<{"motion"}, {"motion", "vehicle"}, {}, {"person", "animal"}>>
Recording(i) ==
    [file_name |-> i,
     bc_triggers |-> TriggerCycle[((i - 1) % Len(TriggerCycle)) + 1]]
Recordings(n) == [i \in 1..n |-> Recording(i)]

\* vod_files[:max_downloads]
Selected(vod_files) == SubSeq(vod_files, 1, Min(max_downloads, Len(vod_files)))

NoRun ==
    [pc |-> "none", env_file |-> TRUE, config |-> EmptyDict,
     download_recordings |-> FALSE, monitor_duration |-> 0,
     twilio_config |-> NoTwilioConfig, TWILIO_AVAILABLE |-> FALSE,
     ctor_ok |-> FALSE, constructed |-> FALSE,
     vod_files |-> <<>>, attempts |-> <<>>, calls |-> <<>>,
     caught |-> "none", pending |-> "none", exit |-> -1]
\* main() is about to start with this .env file, or without one.
RunStarting(env_file, config) ==
    [NoRun EXCEPT !.pc = "start", !.env_file = env_file, !.config = config]

Absent == [exists |-> FALSE, content |-> <<>>, readable |-> TRUE]
\* check_touchfile: the touchfile was seen, the sends awaited, what the
\* send returned and the time it read when it returned true, what unlink
\* did.
NoTouch ==
    [seen |-> FALSE, sends |-> 0, sent |-> FALSE, at |-> 0,
     unlink |-> "none"]
NoUsage == [st |-> "none", used |-> 0, total |-> 0]
NotReturned == [st |-> "running", events |-> <<>>]

Constructed(r) ==
    /\ twilio_client = r.twilio_client
    /\ sms_on_motion = r.sms_on_motion
    /\ sms_cooldown = r.sms_cooldown
    /\ last_sms_time = 0
    /\ touchfile_enabled = r.touchfile_enabled
    /\ touchfile_check_interval = r.touchfile_check_interval
    /\ disk_monitor_enabled = r.disk_monitor_enabled
    /\ disk_monitor_threshold = r.disk_monitor_threshold
    /\ disk_monitor_check_interval = r.disk_monitor_check_interval
    /\ last_disk_alert_time = 0
    /\ motion_events = <<>>
    /\ last_motion_state = EmptyDict

\* The runs explored.  With the touchfile enabled the loop ticks every
\* second: only the short durations are explored there, and the touchfile
\* together with the disk monitor for one configuration.
Explored ==
    /\ touchfile_enabled => duration_seconds \in {0, ShortRun}
    /\ (touchfile_enabled /\ disk_monitor_enabled) =>
          /\ duration_seconds = ShortRun
          /\ touchfile_check_interval = 1
          /\ sms_cooldown = 1

\* monitor_realtime has not been called.
NotStarted ==
    /\ pc = "start"
    /\ elapsed = 0
    /\ sleep_time = 0
    /\ next_touchfile_check = 0
    /\ next_status_log = check_interval
    /\ next_motion_poll = motion_poll_interval
    /\ next_disk_check = 0
    /\ exit_reason = "none"
    /\ unsub = "none"
    /\ ret = NotReturned
    /\ tf_obs = NoTouch
    /\ usage = NoUsage
    /\ disk_time = 0
    /\ mainJob = NoJob
    /\ tasks = <<>>
    /\ now = StartTime
    /\ motion = FALSE
    /\ touchfile = Absent

Init ==
    /\ \E config \in TwilioConfigs, TWILIO_AVAILABLE \in BOOLEAN,
          ctor_ok \in BOOLEAN :
           Constructed(setup_twilio(config, TWILIO_AVAILABLE, ctor_ok))
    /\ duration_seconds \in Durations
    /\ Explored
    /\ NotStarted
    /\ accessor = NoCall
    /\ call = NoPureCall
    /\ run = NoRun

(***************************************************************************)
(* Positions of monitor_realtime.  At an await the coroutine is suspended  *)
(* and the event loop runs callbacks and tasks; between two awaits its     *)
(* code runs without yielding.  The steps of the executor threads and of   *)
(* the environment are placed at the awaits: a step of theirs commutes     *)
(* with the loop's code between two awaits, which reads and writes none    *)
(* of what they write.                                                     *)
(***************************************************************************)
AwaitPcs == {"sleep", "tf_wait", "disk_wait"}
SyncPcs == {"while", "touch", "poll", "disk", "status"}

(***************************************************************************)
(* send_sms, as run by an executor thread.                                 *)
(***************************************************************************)
\* Mutants of the cooldown test: the window closed at its end; the force
\* flag ignored.
CooldownActiveInclusive(force, current_time, last, cooldown) ==
    ~force /\ (current_time - last) <= cooldown
CooldownActiveIgnoresForce(force, current_time, last, cooldown) ==
    (current_time - last) < cooldown

\* not force and (current_time - self.last_sms_time) < self.sms_cooldown
CooldownActive(force, current_time, last, cooldown) ==
    ~force /\ (current_time - last) < cooldown

\* Up to the provider call: the client test, the clock reading, the
\* cooldown test.  The result is the call's new state.
send_sms_begin(j) ==
    IF ~twilio_client
    THEN [j EXCEPT !.st = "done", !.ok = FALSE]
    ELSE LET current_time == now
         IN  IF CooldownActive(j.force, current_time, last_sms_time,
                               sms_cooldown)
             THEN [j EXCEPT !.st = "done", !.ok = FALSE]
             ELSE [j EXCEPT !.st = "calling", !.t = current_time,
                            !.called = TRUE]

\* messages.create returned (success) or raised: the value returned.
send_sms_end(j, success) == [j EXCEPT !.st = "done", !.ok = success]

\* Mutant: last_sms_time is set whatever messages.create did.
LastSmsAfterAlways(j, success) == j.t

\* self.last_sms_time = current_time, only after a successful create.
LastSmsAfter(j, success) == IF success THEN j.t ELSE last_sms_time

\* The send awaited by check_touchfile or check_disk_space.
MainSendBegin ==
    /\ pc \in AwaitPcs
    /\ mainJob.st = "queued"
    /\ mainJob' = send_sms_begin(mainJob)
    /\ UNCHANGED <<retrieverVars, loopVars, checkVars, tasks, envVars>>
    /\ UNCHANGED outsideVars

MainSendEnd ==
    /\ pc \in AwaitPcs
    /\ mainJob.st = "calling"
    /\ \E success \in BOOLEAN :
          /\ mainJob' = send_sms_end(mainJob, success)
          /\ last_sms_time' = LastSmsAfter(mainJob, success)
    /\ UNCHANGED <<configVars, last_disk_alert_time, motion_events,
                   last_motion_state, pc, elapsed, sleep_time,
                   next_touchfile_check, next_status_log, next_motion_poll,
                   next_disk_check, exit_reason, unsub, ret, checkVars,
                   tasks, envVars>>
    /\ UNCHANGED outsideVars

\* The send of a _send_motion_sms task.
TaskSendBegin ==
    \E i \in DOMAIN tasks :
       /\ pc \in AwaitPcs
       /\ tasks[i].st = "queued"
       /\ tasks' = [tasks EXCEPT ![i] = send_sms_begin(tasks[i])]
       /\ UNCHANGED <<retrieverVars, loopVars, checkVars, mainJob, envVars>>
       /\ UNCHANGED outsideVars

Remove(s, i) == SubSeq(s, 1, i - 1) \o SubSeq(s, i + 1, Len(s))

TaskSendEnd ==
    \E i \in DOMAIN tasks :
       /\ pc \in AwaitPcs
       /\ tasks[i].st = "calling"
       /\ \E success \in BOOLEAN :
             /\ tasks' = [tasks EXCEPT ![i] = send_sms_end(tasks[i], success)]
             /\ last_sms_time' = LastSmsAfter(tasks[i], success)
       /\ UNCHANGED <<configVars, last_disk_alert_time, motion_events,
                      last_motion_state, pc, elapsed, sleep_time,
                      next_touchfile_check, next_status_log,
                      next_motion_poll, next_disk_check, exit_reason, unsub,
                      ret, checkVars, mainJob, envVars>>
       /\ UNCHANGED outsideVars

\* Mutant: the motion SMS is a forced send.
event_callback_forced(read_ok, name_ok) ==
    IF ~read_ok
    THEN UNCHANGED <<motion_events, last_motion_state, tasks>>
    ELSE LET motion_now == motion
             was_motion == Get(last_motion_state, Channel, FALSE)
         IN  IF motion_now /\ ~was_motion
             THEN /\ motion_events' = Append(motion_events, "motion_start")
                  /\ IF sms_on_motion
                     THEN IF name_ok
                          THEN /\ tasks' = Append(tasks,
                                      NewJob("motion", TRUE, MotionMsg))
                               /\ last_motion_state' =
                                      Put(last_motion_state, Channel,
                                          motion_now)
                          ELSE \* the exception leaves event_callback
                               UNCHANGED <<tasks, last_motion_state>>
                     ELSE /\ UNCHANGED tasks
                          /\ last_motion_state' =
                                 Put(last_motion_state, Channel, motion_now)
             ELSE IF ~motion_now /\ was_motion
             THEN /\ motion_events' = Append(motion_events, "motion_end")
                  /\ last_motion_state' =
                         Put(last_motion_state, Channel, motion_now)
                  /\ UNCHANGED tasks
             ELSE /\ last_motion_state' =
                         Put(last_motion_state, Channel, motion_now)
                  /\ UNCHANGED <<motion_events, tasks>>

(***************************************************************************)
(* event_callback: the motion state check, called by the camera client's   *)
(* push callback and by the loop's 10 second poll.                         *)
(*   read_ok: motion_detected(channel) did not raise                       *)
(*   name_ok: camera_name(channel) did not raise                           *)
(***************************************************************************)
event_callback(read_ok, name_ok) ==
    IF ~read_ok
    THEN UNCHANGED <<motion_events, last_motion_state, tasks>>
    ELSE LET motion_now == motion
             was_motion == Get(last_motion_state, Channel, FALSE)
         IN  IF motion_now /\ ~was_motion
             THEN /\ motion_events' = Append(motion_events, "motion_start")
                  /\ IF sms_on_motion
                     THEN IF name_ok
                          THEN /\ tasks' = Append(tasks,
                                      NewJob("motion", FALSE, MotionMsg))
                               /\ last_motion_state' =
                                      Put(last_motion_state, Channel,
                                          motion_now)
                          ELSE \* the exception leaves event_callback
                               UNCHANGED <<tasks, last_motion_state>>
                     ELSE /\ UNCHANGED tasks
                          /\ last_motion_state' =
                                 Put(last_motion_state, Channel, motion_now)
             ELSE IF ~motion_now /\ was_motion
             THEN /\ motion_events' = Append(motion_events, "motion_end")
                  /\ last_motion_state' =
                         Put(last_motion_state, Channel, motion_now)
                  /\ UNCHANGED tasks
             ELSE /\ last_motion_state' =
                         Put(last_motion_state, Channel, motion_now)
                  /\ UNCHANGED <<motion_events, tasks>>

\* The failures of the camera client explored: camera_name fails only
\* while the event list has room for the start event it leaves behind.
FailureExplored(read_ok, name_ok) ==
    /\ ~read_ok => name_ok
    /\ ~name_ok => Len(motion_events) + 2 <= MaxEvents

\* The camera client calls the registered callback on a push event.
Callback ==
    /\ pc \in AwaitPcs
    /\ \E read_ok, name_ok \in BOOLEAN :
          /\ FailureExplored(read_ok, name_ok)
          /\ event_callback(read_ok, name_ok)
    /\ UNCHANGED <<configVars, last_sms_time, last_disk_alert_time,
                   loopVars, checkVars, mainJob, envVars>>
    /\ UNCHANGED outsideVars

\* _send_motion_sms resumes on the event loop once its send has returned,
\* logs the result and ends.
TaskDone ==
    /\ pc \in AwaitPcs
    /\ \E i \in DOMAIN tasks :
          /\ tasks[i].st = "done"
          /\ tasks' = Remove(tasks, i)
    /\ UNCHANGED <<retrieverVars, loopVars, checkVars, mainJob, envVars>>
    /\ UNCHANGED outsideVars

(***************************************************************************)
(* monitor_realtime.                                                       *)
(***************************************************************************)
\* Mutant: a failed subscription goes on to unsubscribe_events().
SubscribeFailureUnsubscribes ==
    /\ pc = "start"
    /\ \E ok \in BOOLEAN :
          IF ok
          THEN /\ pc' = "while"
               /\ UNCHANGED ret
          ELSE /\ pc' = "unsub"
               /\ UNCHANGED ret
    /\ UNCHANGED <<retrieverVars, duration_seconds, elapsed, sleep_time,
                   next_touchfile_check, next_status_log, next_motion_poll,
                   next_disk_check, exit_reason, unsub, checkVars, jobVars,
                   envVars>>
    /\ UNCHANGED outsideVars

\* register_callback, then await subscribe_events(): on failure return [].
Subscribe ==
    /\ pc = "start"
    /\ \E ok \in BOOLEAN :
          IF ok
          THEN /\ pc' = "while"
               /\ UNCHANGED ret
          ELSE /\ pc' = "returned"
               /\ ret' = [st |-> "returned", events |-> <<>>]
    /\ UNCHANGED <<retrieverVars, duration_seconds, elapsed, sleep_time,
                   next_touchfile_check, next_status_log, next_motion_poll,
                   next_disk_check, exit_reason, unsub, checkVars, jobVars,
                   envVars>>
    /\ UNCHANGED outsideVars

infinite_mode == duration_seconds = 0

\* touchfile_interval = self.touchfile_check_interval if
\* self.touchfile_enabled else check_interval
touchfile_interval ==
    IF touchfile_enabled THEN touchfile_check_interval ELSE check_interval

\* The sleep of one tick.
SleepTime ==
    LET base == IF touchfile_enabled
                THEN Min(touchfile_interval, 1)
                ELSE check_interval
    IN  IF ~infinite_mode
        THEN Min(base, duration_seconds - elapsed)
        ELSE base

\* An infinite run is explored for MaxTicks ticks of the loop.
TickLength == IF touchfile_enabled THEN 1 ELSE check_interval
TicksExplored == infinite_mode => elapsed < MaxTicks * TickLength

\* while infinite_mode or elapsed < duration_seconds: compute sleep_time
\* and suspend in asyncio.sleep; otherwise leave the loop.  The locals of
\* the checks of the tick before are gone.
LoopHead ==
    /\ pc = "while"
    /\ IF infinite_mode \/ elapsed < duration_seconds
       THEN /\ TicksExplored
            /\ sleep_time' = SleepTime
            /\ pc' = "sleep"
            /\ UNCHANGED exit_reason
       ELSE /\ pc' = "unsub"
            /\ exit_reason' = "duration"
            /\ UNCHANGED sleep_time
    /\ tf_obs' = NoTouch
    /\ usage' = NoUsage
    /\ disk_time' = 0
    /\ mainJob' = NoJob
    /\ UNCHANGED <<retrieverVars, duration_seconds, elapsed,
                   next_touchfile_check, next_status_log, next_motion_poll,
                   next_disk_check, unsub, ret, tasks, envVars>>
    /\ UNCHANGED outsideVars

(***************************************************************************)
(* The four checks of a tick, in the order of the loop body.  Each is      *)
(* entered when its condition holds and passed over otherwise; e is        *)
(* elapsed and the other arguments the next_... locals at that point.      *)
(***************************************************************************)
\* if elapsed >= next_status_log
StatusOrLater(e, nsl) == IF e >= nsl THEN "status" ELSE "while"

\* if self.disk_monitor_enabled and elapsed >= next_disk_check
DiskOrLater(e, ndc, nsl) ==
    IF disk_monitor_enabled /\ e >= ndc
    THEN "disk"
    ELSE StatusOrLater(e, nsl)

\* if elapsed >= next_motion_poll
PollOrLater(e, nmp, ndc, nsl) ==
    IF e >= nmp THEN "poll" ELSE DiskOrLater(e, ndc, nsl)

\* if self.touchfile_enabled and elapsed >= next_touchfile_check
TouchOrLater(e, ntc, nmp, ndc, nsl) ==
    IF touchfile_enabled /\ e >= ntc
    THEN "touch"
    ELSE PollOrLater(e, nmp, ndc, nsl)

\* asyncio.sleep(sleep_time) returns; elapsed += sleep_time.
Wake ==
    /\ pc = "sleep"
    /\ elapsed' = elapsed + sleep_time
    /\ now' = now + sleep_time
    /\ pc' = TouchOrLater(elapsed', next_touchfile_check, next_motion_poll,
                          next_disk_check, next_status_log)
    /\ UNCHANGED <<retrieverVars, duration_seconds, sleep_time,
                   next_touchfile_check, next_status_log, next_motion_poll,
                   next_disk_check, exit_reason, unsub, ret, checkVars,
                   jobVars, motion, touchfile>>
    /\ UNCHANGED outsideVars

(***************************************************************************)
(* check_touchfile.                                                        *)
(***************************************************************************)
\* Mutant: the content is not stripped.
TouchMessageNoStrip(file, ts) ==
    IF file.readable /\ file.content # <<>>
    THEN TextMsg(file.content)
    ELSE ManualMsg(ts)

\* The message of a touchfile that exists: read_text().strip(), or the
\* default when that is empty or the read raises.
TouchMessage(file, ts) ==
    IF file.readable
    THEN LET message_content == Strip(file.content)
         IN  IF message_content # <<>>
             THEN TextMsg(message_content)
             ELSE ManualMsg(ts)
    ELSE ManualMsg(ts)

\* The touchfile does not exist: check_touchfile returns.
TouchfileAbsent ==
    /\ pc = "touch"
    /\ ~touchfile.exists
    /\ next_touchfile_check' = elapsed + touchfile_interval
    /\ pc' = PollOrLater(elapsed, next_motion_poll, next_disk_check,
                         next_status_log)
    /\ UNCHANGED <<retrieverVars, duration_seconds, elapsed, sleep_time,
                   next_status_log, next_motion_poll, next_disk_check,
                   exit_reason, unsub, ret, checkVars, jobVars, envVars>>
    /\ UNCHANGED outsideVars

\* The touchfile exists: build the message and await the forced send.
TouchfileFound ==
    /\ pc = "touch"
    /\ touchfile.exists
    /\ mainJob' = NewJob("touch", TRUE, TouchMessage(touchfile, now))
    /\ tf_obs' = [seen |-> TRUE, sends |-> tf_obs.sends + 1,
                  sent |-> FALSE, at |-> 0, unlink |-> "none"]
    /\ pc' = "tf_wait"
    /\ UNCHANGED <<retrieverVars, duration_seconds, elapsed, sleep_time,
                   next_touchfile_check, next_status_log, next_motion_poll,
                   next_disk_check, exit_reason, unsub, ret, usage,
                   disk_time, tasks, envVars>>
    /\ UNCHANGED outsideVars

\* The touchfile once self.touchfile_path.unlink() returned or raised.
Unlinked(file, unlink_ok) == IF unlink_ok THEN Absent ELSE file

\* Mutant: the touchfile is deleted only after a successful send.
TouchfileAfterSendOnSuccess ==
    /\ pc = "tf_wait"
    /\ mainJob.st = "done"
    /\ IF mainJob.ok
       THEN \E unlink_ok \in BOOLEAN :
               /\ touchfile' = Unlinked(touchfile, unlink_ok)
               /\ tf_obs' = [tf_obs EXCEPT
                               !.sent = mainJob.ok,
                               !.at = IF mainJob.ok THEN mainJob.t ELSE 0,
                               !.unlink = IF unlink_ok THEN "ok" ELSE "error"]
       ELSE UNCHANGED <<touchfile, tf_obs>>
    /\ next_touchfile_check' = elapsed + touchfile_interval
    /\ pc' = PollOrLater(elapsed, next_motion_poll, next_disk_check,
                         next_status_log)
    /\ UNCHANGED <<retrieverVars, duration_seconds, elapsed, sleep_time,
                   next_status_log, next_motion_poll, next_disk_check,
                   exit_reason, unsub, ret, usage, disk_time, jobVars,
                   now, motion>>
    /\ UNCHANGED outsideVars

\* The send returned (true or false): unlink the touchfile; an error of
\* unlink is logged.  check_touchfile returns.
TouchfileAfterSend ==
    /\ pc = "tf_wait"
    /\ mainJob.st = "done"
    /\ \E unlink_ok \in BOOLEAN :
          /\ touchfile' = Unlinked(touchfile, unlink_ok)
          /\ tf_obs' = [tf_obs EXCEPT
                          !.sent = mainJob.ok,
                          !.at = IF mainJob.ok THEN mainJob.t ELSE 0,
                          !.unlink = IF unlink_ok THEN "ok" ELSE "error"]
    /\ next_touchfile_check' = elapsed + touchfile_interval
    /\ pc' = PollOrLater(elapsed, next_motion_poll, next_disk_check,
                         next_status_log)
    /\ UNCHANGED <<retrieverVars, duration_seconds, elapsed, sleep_time,
                   next_status_log, next_motion_poll, next_disk_check,
                   exit_reason, unsub, ret, usage, disk_time, jobVars,
                   now, motion>>
    /\ UNCHANGED outsideVars

(***************************************************************************)
(* The manual motion poll of the loop.                                     *)
(***************************************************************************)
\* try: event_callback() except Exception: log.  Then the next poll time.
MotionPoll ==
    /\ pc = "poll"
    /\ \E read_ok, name_ok \in BOOLEAN :
          /\ FailureExplored(read_ok, name_ok)
          /\ event_callback(read_ok, name_ok)
    /\ next_motion_poll' = elapsed + motion_poll_interval
    /\ pc' = DiskOrLater(elapsed, next_disk_check, next_status_log)
    /\ UNCHANGED <<configVars, last_sms_time, last_disk_alert_time,
                   elapsed, sleep_time, next_touchfile_check,
                   next_status_log, next_disk_check, exit_reason, unsub,
                   ret, checkVars, mainJob, envVars>>
    /\ UNCHANGED outsideVars

(***************************************************************************)
(* check_disk_space.                                                       *)
(***************************************************************************)
\* shutil.disk_usage(path): a reading, or an exception.
DiskReadings ==
    {[st |-> "ok", used |-> u, total |-> DiskTotal] :
        u \in {DiskTotal - 2, DiskTotal - 1}}
    \cup {[st |-> "error", used |-> 0, total |-> 0]}

\* percent_used >= self.disk_monitor_threshold, with
\* percent_used = (usage.used / usage.total) * 100
ThresholdReached(reading, threshold) ==
    reading.used * 100 >= threshold * reading.total

\* Mutant: no cooldown between disk alerts.
DiskCooldownNever(current_time, last, cooldown) == FALSE

\* (current_time - self.last_disk_alert_time) < self.sms_cooldown
DiskCooldownActive(current_time, last, cooldown) ==
    (current_time - last) < cooldown

\* The reading failed (logged), or is under the threshold, or the disk
\* alert cooldown is active: check_disk_space returns without a send.
DiskCheckQuiet ==
    /\ pc = "disk"
    /\ \E reading \in DiskReadings :
          /\ usage' = reading
          /\ \/ /\ reading.st = "error"
                /\ UNCHANGED disk_time
             \/ /\ reading.st = "ok"
                /\ ~ThresholdReached(reading, disk_monitor_threshold)
                /\ UNCHANGED disk_time
             \/ /\ reading.st = "ok"
                /\ ThresholdReached(reading, disk_monitor_threshold)
                /\ DiskCooldownActive(now, last_disk_alert_time,
                                      sms_cooldown)
                /\ disk_time' = now
    /\ next_disk_check' = elapsed + disk_monitor_check_interval
    /\ pc' = StatusOrLater(elapsed, next_status_log)
    /\ UNCHANGED <<retrieverVars, duration_seconds, elapsed, sleep_time,
                   next_touchfile_check, next_status_log, next_motion_poll,
                   exit_reason, unsub, ret, tf_obs, jobVars, envVars>>
    /\ UNCHANGED outsideVars

\* The threshold is reached and the disk alert cooldown has passed: await
\* the send of the alert, not forced.
DiskCheckAlert ==
    /\ pc = "disk"
    /\ \E reading \in DiskReadings :
          /\ reading.st = "ok"
          /\ ThresholdReached(reading, disk_monitor_threshold)
          /\ usage' = reading
    /\ ~DiskCooldownActive(now, last_disk_alert_time, sms_cooldown)
    /\ disk_time' = now
    /\ mainJob' = NewJob("disk", FALSE, DiskMsg)
    /\ pc' = "disk_wait"
    /\ UNCHANGED <<retrieverVars, duration_seconds, elapsed, sleep_time,
                   next_touchfile_check, next_status_log, next_motion_poll,
                   next_disk_check, exit_reason, unsub, ret, tf_obs, tasks,
                   envVars>>
    /\ UNCHANGED outsideVars

\* Mutant: the time of the check is recorded whatever the send returned.
DiskAlertTimeAlways(sent) == disk_time

\* last_disk_alert_time after the send returned sent.
DiskAlertTimeAfter(sent) ==
    IF sent THEN disk_time ELSE last_disk_alert_time

\* Mutant: check_disk_space goes on only after a successful send.
DiskAfterSendOnSuccess ==
    /\ pc = "disk_wait"
    /\ mainJob.st = "done"
    /\ mainJob.ok
    /\ last_disk_alert_time' = DiskAlertTimeAfter(mainJob.ok)
    /\ next_disk_check' = elapsed + disk_monitor_check_interval
    /\ pc' = StatusOrLater(elapsed, next_status_log)
    /\ UNCHANGED <<configVars, last_sms_time, motion_events,
                   last_motion_state, elapsed, sleep_time,
                   next_touchfile_check, next_status_log, next_motion_poll,
                   exit_reason, unsub, ret, checkVars, jobVars, envVars>>
    /\ UNCHANGED outsideVars

\* The send returned: on true, self.last_disk_alert_time = current_time.
DiskAfterSend ==
    /\ pc = "disk_wait"
    /\ mainJob.st = "done"
    /\ last_disk_alert_time' = DiskAlertTimeAfter(mainJob.ok)
    /\ next_disk_check' = elapsed + disk_monitor_check_interval
    /\ pc' = StatusOrLater(elapsed, next_status_log)
    /\ UNCHANGED <<configVars, last_sms_time, motion_events,
                   last_motion_state, elapsed, sleep_time,
                   next_touchfile_check, next_status_log, next_motion_poll,
                   exit_reason, unsub, ret, checkVars, jobVars, envVars>>
    /\ UNCHANGED outsideVars

(***************************************************************************)
(* The status log of the loop, and the end of monitor_realtime.            *)
(***************************************************************************)
StatusLog ==
    /\ pc = "status"
    /\ next_status_log' = elapsed + check_interval
    /\ pc' = "while"
    /\ UNCHANGED <<retrieverVars, duration_seconds, elapsed, sleep_time,
                   next_touchfile_check, next_motion_poll, next_disk_check,
                   exit_reason, unsub, ret, checkVars, jobVars, envVars>>
    /\ UNCHANGED outsideVars

\* try: await unsubscribe_events() except Exception: log.  Then
\* return self.motion_events.
Unsubscribe ==
    /\ pc = "unsub"
    /\ \E ok \in BOOLEAN : unsub' = IF ok THEN "ok" ELSE "error"
    /\ ret' = [st |-> "returned", events |-> motion_events]
    /\ pc' = "returned"
    /\ UNCHANGED <<retrieverVars, duration_seconds, elapsed, sleep_time,
                   next_touchfile_check, next_status_log, next_motion_poll,
                   next_disk_check, exit_reason, checkVars, jobVars,
                   envVars>>
    /\ UNCHANGED outsideVars

(***************************************************************************)
(* Ctrl+C under asyncio.run.  While the coroutine is suspended at an await *)
(* the interrupt reaches it as a CancelledError raised at that await (the  *)
(* runner cancels the main task): neither "except KeyboardInterrupt" of    *)
(* monitor_realtime nor "except Exception" of the checks catches it, and   *)
(* it leaves monitor_realtime.  While the coroutine's own code runs, a     *)
(* runner without its own SIGINT handler raises KeyboardInterrupt there,   *)
(* which the try of the loop catches.                                      *)
(***************************************************************************)
InterruptAwait ==
    /\ pc \in AwaitPcs
    /\ pc' = "raised"
    /\ exit_reason' = "interrupt"
    /\ ret' = [st |-> "raised", events |-> <<>>]
    /\ UNCHANGED <<retrieverVars, duration_seconds, elapsed, sleep_time,
                   next_touchfile_check, next_status_log, next_motion_poll,
                   next_disk_check, unsub, checkVars, jobVars, envVars>>
    /\ UNCHANGED outsideVars

InterruptSync ==
    /\ pc \in SyncPcs
    /\ pc' = "unsub"
    /\ exit_reason' = "interrupt"
    /\ UNCHANGED <<retrieverVars, duration_seconds, elapsed, sleep_time,
                   next_touchfile_check, next_status_log, next_motion_poll,
                   next_disk_check, unsub, ret, checkVars, jobVars, envVars>>
    /\ UNCHANGED outsideVars

(***************************************************************************)
(* Environment: the wall clock, the camera, the touchfile's writer.        *)
(***************************************************************************)
Tick ==
    /\ pc \in AwaitPcs
    /\ now - StartTime - elapsed < MaxDrift
    /\ now' = now + 1
    /\ UNCHANGED <<retrieverVars, loopVars, checkVars, jobVars, motion,
                   touchfile>>
    /\ UNCHANGED outsideVars

\* The camera's motion state changes, while the event list and the task
\* list have room for what the next state check will add.
MotionChange ==
    /\ pc \in AwaitPcs
    /\ LET was_motion == Get(last_motion_state, Channel, FALSE)
       IN  /\ (~motion) # was_motion => Len(motion_events) < MaxEvents
           /\ (~motion /\ ~was_motion /\ sms_on_motion)
                 => Len(tasks) < MaxTasks
    /\ motion' = ~motion
    /\ UNCHANGED <<retrieverVars, loopVars, checkVars, jobVars, now,
                   touchfile>>
    /\ UNCHANGED outsideVars

\* A touchfile as written: readable with some content, or unreadable.
FilesWritten ==
    {[exists |-> TRUE, content |-> c, readable |-> TRUE] : c \in Contents}
    \cup {[exists |-> TRUE, content |-> <<>>, readable |-> FALSE]}

TouchCreate ==
    /\ pc \in AwaitPcs
    /\ touchfile_enabled
    /\ ~touchfile.exists
    /\ touchfile' \in FilesWritten
    /\ UNCHANGED <<retrieverVars, loopVars, checkVars, jobVars, now,
                   motion>>
    /\ UNCHANGED outsideVars

(***************************************************************************)
(* Spec: a run of monitor_realtime that is not interrupted.                *)
(* SpecInterrupt: the same with Ctrl+C.                                    *)
(***************************************************************************)
Next ==
    \/ Subscribe
    \/ LoopHead
    \/ Wake
    \/ TouchfileAbsent
    \/ TouchfileFound
    \/ TouchfileAfterSend
    \/ MotionPoll
    \/ DiskCheckQuiet
    \/ DiskCheckAlert
    \/ DiskAfterSend
    \/ StatusLog
    \/ Unsubscribe
    \/ Callback
    \/ MainSendBegin
    \/ MainSendEnd
    \/ TaskSendBegin
    \/ TaskSendEnd
    \/ TaskDone
    \/ Tick
    \/ MotionChange
    \/ TouchCreate

Spec == Init /\ [][Next]_vars

NextInterrupt ==
    \/ Next
    \/ InterruptAwait
    \/ InterruptSync

SpecInterrupt == Init /\ [][NextInterrupt]_vars

(***************************************************************************)
(* The loop under fair scheduling: the event loop resumes a coroutine      *)
(* whose await has completed and the executor runs a submitted call, so a  *)
(* step of the program that stays possible is taken; the camera, the       *)
(* clock and the touchfile's writer owe nothing.                           *)
(***************************************************************************)
ProgramStep ==
    \/ Subscribe
    \/ LoopHead
    \/ Wake
    \/ TouchfileAbsent
    \/ TouchfileFound
    \/ TouchfileAfterSend
    \/ MotionPoll
    \/ DiskCheckQuiet
    \/ DiskCheckAlert
    \/ DiskAfterSend
    \/ StatusLog
    \/ Unsubscribe
    \/ MainSendBegin
    \/ MainSendEnd
    \/ TaskSendBegin
    \/ TaskSendEnd
    \/ TaskDone

FairSpec == Init /\ [][Next]_vars /\ WF_vars(ProgramStep)

(***************************************************************************)
(* One call of get_config_value, the monitor not started.                  *)
(***************************************************************************)
GetConfigValue ==
    /\ accessor.result = Pending
    /\ accessor' =
          [accessor EXCEPT !.result =
              get_config_value(accessor.config, accessor.key,
                               accessor.default, accessor.value_type)]
    /\ UNCHANGED <<monitorVars, call, run>>

InitCfg ==
    /\ accessor \in Calls
    /\ call = NoPureCall
    /\ run = NoRun
    /\ Constructed(InitFields)
    /\ duration_seconds = 0
    /\ NotStarted

NextCfg == GetConfigValue

SpecCfg == InitCfg /\ [][NextCfg]_vars

(***************************************************************************)
(* main(), from load_env to the end of the process.  Each step runs main   *)
(* to its next await.  An await ends normally, with an exception of the    *)
(* camera client (caught by except Exception), or with the cancellation    *)
(* asyncio.run delivers on an interrupt (CancelledError, which neither     *)
(* except clause catches).  monitor_realtime is one step here: it          *)
(* returns, raises or is cancelled.                                        *)
(***************************************************************************)
AwaitOutcomes == {"ok", "error", "cancelled"}

\* The process ends with this exit code: sys.exit(1), or an exception
\* that nothing catches.
Exited(r, code) == [r EXCEPT !.pc = "exited", !.exit = code]

\* An await of the try block did not end normally: on to the finally.
Left(r, outcome) ==
    [r EXCEPT !.pc = "cleanup",
              !.caught = IF outcome = "error" THEN "Exception" ELSE @,
              !.pending = IF outcome = "cancelled"
                          THEN "CancelledError" ELSE @]

Called(r, ops) == [r EXCEPT !.calls = @ \o ops]

\* load_env, the settings, the password check, the construction of the
\* retriever.
MainConfigure ==
    /\ run.pc = "start"
    /\ IF ~run.env_file \/ SettingRaises(run.config)
          \/ PasswordMissing(Setting(run.config, "CAMERA_PASSWORD").value)
       THEN /\ run' = Exited(run, 1)
            /\ UNCHANGED retrieverVars
       ELSE \E available \in BOOLEAN, ctor_ok \in BOOLEAN :
               LET twilio_config == TwilioConfigOf(run.config)
                   r == setup_twilio(twilio_config, available, ctor_ok)
               IN  /\ run' = [run EXCEPT
                        !.pc = "setup",
                        !.download_recordings =
                            Setting(run.config, "DOWNLOAD_RECORDINGS").value.b,
                        !.monitor_duration =
                            Setting(run.config, "MONITOR_DURATION").value.n,
                        !.twilio_config = twilio_config,
                        !.TWILIO_AVAILABLE = available,
                        !.ctor_ok = ctor_ok,
                        !.constructed = TRUE]
                   /\ twilio_client' = r.twilio_client
                   /\ sms_on_motion' = r.sms_on_motion
                   /\ sms_cooldown' = r.sms_cooldown
                   /\ touchfile_enabled' = r.touchfile_enabled
                   /\ touchfile_check_interval' = r.touchfile_check_interval
                   /\ disk_monitor_enabled' = r.disk_monitor_enabled
                   /\ disk_monitor_threshold' = r.disk_monitor_threshold
                   /\ disk_monitor_check_interval' =
                         r.disk_monitor_check_interval
                   /\ UNCHANGED <<last_sms_time, last_disk_alert_time,
                                  motion_events, last_motion_state>>
    /\ UNCHANGED <<loopVars, checkVars, jobVars, envVars, accessor, call>>

\* await retriever.setup()
MainSetup ==
    /\ run.pc = "setup"
    /\ \E outcome \in AwaitOutcomes :
          LET r == Called(run, <<"get_host_data">>)
          IN  run' = IF outcome = "ok"
                     THEN [Called(r, <<"get_states">>) EXCEPT !.pc = "checks"]
                     ELSE Left(r, outcome)
    /\ UNCHANGED <<monitorVars, accessor, call>>

\* The checks of the camera settings and the recording calendar.
MainChecks ==
    /\ run.pc = "checks"
    /\ \E outcome \in AwaitOutcomes :
          run' = IF outcome = "ok"
                 THEN [Called(run, <<"request_vod_files">>)
                          EXCEPT !.pc = "search"]
                 ELSE Left(run, outcome)
    /\ UNCHANGED <<monitorVars, accessor, call>>

\* get_historical_recordings returns the recordings found, none when the
\* search raised; then if download_recordings and vod_files.
MainSearch ==
    /\ run.pc = "search"
    /\ \E outcome \in AwaitOutcomes, n \in 0..MaxRecordings :
          LET r == Called(run, <<"request_vod_files">>)
              vod_files == IF outcome = "ok" THEN Recordings(n) ELSE <<>>
          IN  /\ outcome = "error" => n = 0
              /\ run' =
                   IF outcome = "cancelled" THEN Left(r, outcome)
                   ELSE [r EXCEPT
                           !.vod_files = vod_files,
                           !.pc = IF run.download_recordings
                                     /\ vod_files # <<>>
                                  THEN "download" ELSE "monitor"]
    /\ UNCHANGED <<monitorVars, accessor, call>>

\* download_recording for the next of vod_files[:max_downloads]: mkdir
\* and the file name, outside its try; download_vod_file inside it.
DownloadOutcomes == {"ok", "failed", "mkdir_error", "cancelled"}
MainDownload ==
    /\ run.pc = "download"
    /\ \E outcome \in DownloadOutcomes :
          LET selected == Selected(run.vod_files)
              i == Len(run.attempts) + 1
              vod_file == selected[i]
              attempt == [file_name |-> vod_file.file_name,
                          label |-> trigger_str(vod_file.bc_triggers),
                          result |-> outcome]
              r == [run EXCEPT !.attempts = Append(@, attempt)]
          IN  run' =
                CASE outcome = "mkdir_error" -> Left(r, "error")
                  [] outcome = "cancelled" ->
                        Left(Called(r, <<"download_vod_file">>), outcome)
                  [] OTHER ->
                        [Called(r, <<"download_vod_file">>) EXCEPT
                            !.pc = IF i < Len(selected)
                                   THEN "download" ELSE "monitor"]
    /\ UNCHANGED <<monitorVars, accessor, call>>

\* await retriever.monitor_realtime(...), then the summary.
MainMonitor ==
    /\ run.pc = "monitor"
    /\ \E outcome \in AwaitOutcomes :
          LET r == Called(run, <<"subscribe_events">>)
          IN  run' = IF outcome = "ok"
                     THEN [r EXCEPT !.pc = "cleanup"]
                     ELSE Left(r, outcome)
    /\ UNCHANGED <<monitorVars, accessor, call>>

\* finally: await retriever.cleanup(), which awaits logout().  A logout
\* that raises leaves main() with its exception; a pending cancellation
\* ends in __main__'s except KeyboardInterrupt.
MainCleanup ==
    /\ run.pc = "cleanup"
    /\ \E logout_ok \in BOOLEAN :
          LET r == Called(run, <<"logout">>)
          IN  run' = IF logout_ok
                     THEN Exited(r, 0)
                     ELSE Exited([r EXCEPT !.pending = "LogoutError"], 1)
    /\ UNCHANGED <<monitorVars, accessor, call>>

InitMain ==
    /\ \E env_file \in BOOLEAN, config \in EnvFiles :
          /\ ~env_file => config = EmptyDict
          /\ run = RunStarting(env_file, config)
    /\ accessor = NoCall
    /\ call = NoPureCall
    /\ Constructed(InitFields)
    /\ duration_seconds = 0
    /\ NotStarted

NextMain ==
    \/ MainConfigure
    \/ MainSetup
    \/ MainChecks
    \/ MainSearch
    \/ MainDownload
    \/ MainMonitor
    \/ MainCleanup

SpecMain == InitMain /\ [][NextMain]_vars

(***************************************************************************)
(* One call of format_duration or of the file naming.                      *)
(***************************************************************************)
FormatDuration ==
    /\ call.fn = "format_duration"
    /\ call.result.st = "pending"
    /\ call' = [call EXCEPT !.result =
                   [st |-> "returned", parts |-> format_duration(call.seconds),
                    label |-> "none"]]
    /\ UNCHANGED <<monitorVars, accessor, run>>

TriggerStr ==
    /\ call.fn = "trigger_str"
    /\ call.result.st = "pending"
    /\ call' = [call EXCEPT !.result =
                   [st |-> "returned", parts |-> <<>>,
                    label |-> trigger_str(call.bc_triggers)]]
    /\ UNCHANGED <<monitorVars, accessor, run>>

InitPure ==
    /\ call \in PureCalls
    /\ accessor = NoCall
    /\ run = NoRun
    /\ Constructed(InitFields)
    /\ duration_seconds = 0
    /\ NotStarted

NextPure ==
    \/ FormatDuration
    \/ TriggerStr

SpecPure == InitPure /\ [][NextPure]_vars

(***************************************************************************)
(* monitor_realtime with the inputs of the retriever's construction kept   *)
(* in run: twilio_config, whether the twilio import succeeded, whether     *)
(* TwilioClient(...) returned.                                             *)
(***************************************************************************)
RunMonitoring(config, available, ctor_ok) ==
    [NoRun EXCEPT !.pc = "monitor", !.constructed = TRUE,
                  !.twilio_config = config,
                  !.TWILIO_AVAILABLE = available, !.ctor_ok = ctor_ok]

\* The constructions explored: one whose client is not constructed is
\* explored with every feature asked for, and for the short duration.
SetupExplored ==
    /\ ~run.twilio_config.touchfile_path =>
          run.twilio_config.touchfile_check_interval = 1
    /\ ~twilio_client =>
          /\ run.twilio_config.touchfile_path
          /\ run.twilio_config.disk_monitor_enabled
          /\ run.twilio_config.sms_cooldown = 1
          /\ run.twilio_config.touchfile_check_interval = 1
          /\ duration_seconds = ShortRun

InitSetup ==
    /\ \E config \in TwilioConfigs, TWILIO_AVAILABLE \in BOOLEAN,
          ctor_ok \in BOOLEAN :
           /\ Constructed(setup_twilio(config, TWILIO_AVAILABLE, ctor_ok))
           /\ run = RunMonitoring(config, TWILIO_AVAILABLE, ctor_ok)
    /\ duration_seconds \in Durations
    /\ Explored
    /\ SetupExplored
    /\ NotStarted
    /\ accessor = NoCall
    /\ call = NoPureCall

SpecSetup == InitSetup /\ [][Next]_vars

(***************************************************************************)
(* main() from its call of monitor_realtime to the end of the process,     *)
(* monitor_realtime running step by step.                                  *)
(***************************************************************************)
\* monitor_realtime returned its events to main(): the summary, which
\* logs two lengths and counts the start events, then on to the finally.
MainSummary ==
    /\ run.pc = "monitor"
    /\ pc = "returned"
    /\ run' = [Called(run, <<"subscribe_events">>
                            \o IF unsub = "none"
                               THEN <<>>
                               ELSE <<"unsubscribe_events">>)
                 EXCEPT !.pc = "cleanup"]
    /\ UNCHANGED <<monitorVars, accessor, call>>

NextRun ==
    \/ Next
    \/ MainSummary
    \/ MainCleanup

SpecRun == InitSetup /\ [][NextRun]_vars

(***************************************************************************)
(* Claims.                                                                 *)
(***************************************************************************)
\* A send_sms call starts in this step: the executor thread runs it up to
\* the provider call.
MainSendStarts == mainJob.st = "queued" /\ mainJob'.st \in {"calling", "done"}
TaskSendStarts(i) ==
    /\ tasks[i].st = "queued"
    /\ Len(tasks') = Len(tasks)
    /\ tasks'[i].st \in {"calling", "done"}

\* What the cooldown gate must do with a send not forced, started t
\* seconds after the last successful send: j is the call after the step.
GateOutcome(j, t) ==
    IF t < sms_cooldown
    THEN j.st = "done" /\ ~j.ok /\ ~j.called
    ELSE j.st = "calling" /\ j.called

\* C1: a send not forced, made with a provider client at T + t, where T is
\* last_sms_time, returns false without calling the provider when
\* t < sms_cooldown and calls the provider when t >= sms_cooldown.
C1_CooldownGate ==
    [][/\ (MainSendStarts /\ ~mainJob.force /\ twilio_client)
             => GateOutcome(mainJob', now - last_sms_time)
       /\ \A i \in DOMAIN tasks :
             (TaskSendStarts(i) /\ ~tasks[i].force /\ twilio_client)
                => GateOutcome(tasks'[i], now - last_sms_time)]_vars

\* A send not forced is inside the provider call, a full cooldown window
\* or more after an earlier successful send.
C1_Witness ==
    /\ last_sms_time > 0
    /\ \/ /\ mainJob.kind = "disk"
          /\ mainJob.st = "calling"
          /\ mainJob.t - last_sms_time >= sms_cooldown
       \/ \E i \in DOMAIN tasks :
             /\ tasks[i].st = "calling"
             /\ tasks[i].t - last_sms_time >= sms_cooldown

\* C2: a forced send made with a provider client calls the provider,
\* whatever last_sms_time and sms_cooldown are.
C2_ForcedBypass ==
    [][(MainSendStarts /\ mainJob.force /\ twilio_client)
          => (mainJob'.st = "calling" /\ mainJob'.called)]_vars

\* A forced send is inside the provider call although less than the
\* cooldown window has passed since the last successful send.
C2_Witness ==
    /\ mainJob.force
    /\ mainJob.st = "calling"
    /\ last_sms_time > 0
    /\ mainJob.t - last_sms_time < sms_cooldown

\* C3: the recorded motion events alternate strictly, starting with a
\* start: no two consecutive events have the same type.
C3_EventsAlternate ==
    \A i \in DOMAIN motion_events :
        motion_events[i] =
            IF i % 2 = 1 THEN "motion_start" ELSE "motion_end"

\* C4: get_config_value(config, key, default, bool) returns true exactly
\* when the stored string is one of true, 1, yes, on in any case, false
\* for every other stored string, and false, without raising, for an
\* absent key with default False.
C4_BoolAccessor ==
    (accessor.value_type = "bool" /\ accessor.result # Pending)
       => IF accessor.key \in DOMAIN accessor.config
          THEN accessor.result =
                  Returned(BoolValue(
                      Lower(accessor.config[accessor.key].s) \in TrueWords))
          ELSE accessor.default = BoolValue(FALSE)
                  => accessor.result = Returned(BoolValue(FALSE))

\* C5 as claimed: a disk check that found the threshold reached and the
\* disk alert cooldown passed has called the provider and recorded the
\* time of the check when it returns.
C5_DiskAlertAlwaysSent ==
    [][(pc = "disk_wait" /\ pc' # "disk_wait")
          => (mainJob.called /\ last_disk_alert_time' = disk_time)]_vars

\* C5 as amended: such a check hands the alert to send_sms not forced; the
\* provider is called exactly when the cooldown window has also passed
\* since last_sms_time, the last successful SMS of any kind; and
\* last_disk_alert_time becomes the time of the check exactly when the
\* send returned true.
C5_DiskAlertWhenSmsAllows ==
    [][/\ (pc = "disk" /\ pc' = "disk_wait")
             => (mainJob'.kind = "disk" /\ ~mainJob'.force
                 /\ mainJob'.st = "queued")
       /\ (mainJob.kind = "disk" /\ MainSendStarts)
             => (mainJob'.called <=> now - last_sms_time >= sms_cooldown)
       /\ (pc = "disk_wait" /\ pc' # "disk_wait")
             => last_disk_alert_time' =
                   IF mainJob.ok THEN disk_time
                   ELSE last_disk_alert_time]_vars

\* A disk alert was sent and the time of its check recorded.
C5_Witness ==
    /\ pc \in {"status", "while"}
    /\ mainJob.kind = "disk"
    /\ mainJob.called
    /\ mainJob.ok
    /\ last_disk_alert_time = disk_time
    /\ disk_time > 0

\* C6: check_disk_space hands no alert to send_sms when the reading
\* failed, is under the threshold, or less than the cooldown window has
\* passed since the last disk alert, and then leaves the alert state as
\* it was; last_disk_alert_time changes only when the send returned true,
\* and then by at least the cooldown window.
C6_DiskAlertGuard ==
    [][/\ (pc = "disk" /\ pc' # "disk"
           /\ \/ usage'.st # "ok"
              \/ usage'.used * 100 < disk_monitor_threshold * usage'.total
              \/ now - last_disk_alert_time < sms_cooldown)
             => /\ pc' \in {"status", "while"}
                /\ UNCHANGED <<mainJob, tasks, last_sms_time,
                               last_disk_alert_time>>
       /\ last_disk_alert_time' # last_disk_alert_time
             => /\ pc = "disk_wait"
                /\ mainJob.kind = "disk"
                /\ mainJob.called
                /\ mainJob.ok
                /\ last_disk_alert_time' = disk_time
                /\ last_disk_alert_time' - last_disk_alert_time
                      >= sms_cooldown]_vars

\* A disk check found the threshold reached within the cooldown window of
\* an earlier disk alert, and sent nothing.
C6_Witness ==
    /\ pc \in {"status", "while"}
    /\ usage.st = "ok"
    /\ usage.used * 100 >= disk_monitor_threshold * usage.total
    /\ mainJob.kind # "disk"
    /\ last_disk_alert_time > 0
    /\ now - last_disk_alert_time < sms_cooldown

\* C7: a check_touchfile that finds the touchfile awaits one forced send;
\* when the send has returned, true or false, it tries to delete the file
\* and returns to the loop; after a successful delete the file is absent.
C7_TouchfileConsumed ==
    [][/\ (pc = "touch" /\ pc' # "touch" /\ touchfile.exists)
             => /\ pc' = "tf_wait"
                /\ mainJob'.kind = "touch"
                /\ mainJob'.force
                /\ mainJob'.st = "queued"
                /\ tf_obs'.sends = 1
       /\ (pc = "tf_wait" /\ pc' # "tf_wait")
             => /\ mainJob.st = "done"
                /\ tf_obs'.sends = 1
                /\ tf_obs'.unlink \in {"ok", "error"}
                /\ tf_obs'.unlink = "ok" => ~touchfile'.exists
                /\ pc' \in {"poll", "disk", "status", "while"}]_vars

\* The forced send failed and the touchfile was deleted all the same.
C7_Witness ==
    /\ pc \in {"poll", "disk", "status", "while"}
    /\ mainJob.kind = "touch"
    /\ mainJob.called
    /\ ~mainJob.ok
    /\ tf_obs.unlink = "ok"
    /\ ~touchfile.exists

\* b is c without its leading and trailing whitespace, and is not empty.
IsStripOf(b, c) ==
    /\ b # <<>>
    /\ b[1] \notin Whitespace
    /\ b[Len(b)] \notin Whitespace
    /\ \E i \in 0..Len(c) :
          /\ i + Len(b) <= Len(c)
          /\ SubSeq(c, i + 1, i + Len(b)) = b
          /\ \A k \in 1..Len(c) :
                (k <= i \/ k > i + Len(b)) => c[k] \in Whitespace

C9_LoopExits ==
    /\ [](duration_seconds > 0 => elapsed <= duration_seconds)
    /\ [](exit_reason = "duration"
             => (duration_seconds > 0 /\ elapsed = duration_seconds))
    /\ (pc = "while" /\ duration_seconds > 0) ~> (exit_reason = "duration")

\* C10: once subscribed, every exit from the loop, by the duration or by
\* an interrupt, is followed by a call of unsubscribe_events before
\* monitor_realtime finishes, and monitor_realtime returns the event list
\* whether unsubscribe raised or not.
C10_ExitUnsubscribes ==
    (pc \in {"returned", "raised"} /\ exit_reason # "none")
       => (unsub \in {"ok", "error"} /\ ret.st = "returned"
           /\ ret.events = motion_events)

\* C11: on every run that constructed the retriever, logout is attempted
\* exactly once, and a logout that raises is swallowed: no exception of it
\* leaves main() and the process ends as it would have.
C11_LogoutOnceAndSwallowed ==
    (run.pc = "exited" /\ run.constructed)
       => /\ Cardinality({i \in DOMAIN run.calls :
                             run.calls[i] = "logout"}) = 1
          /\ run.pending # "LogoutError"
          /\ run.exit = 0

\* A send_sms call returns in this step: the step of an executor thread
\* after the provider call.
MainSendReturns == mainJob.st = "calling" /\ mainJob'.st = "done"
TaskSendReturns(i) ==
    /\ tasks[i].st = "calling"
    /\ Len(tasks') = Len(tasks)
    /\ tasks'[i].st = "done"

\* C12: the motion flags, last_sms_time, last_disk_alert_time and the
\* event list are written only by the event-loop thread: no step of a
\* worker thread changes any of them.
C12_LoopThreadOnly ==
    [][(MainSendReturns \/ \E i \in DOMAIN tasks : TaskSendReturns(i))
          => UNCHANGED <<last_sms_time, last_disk_alert_time,
                         motion_events, last_motion_state>>]_vars

\* The condition of _setup_twilio for constructing the client, on the
\* inputs of the construction.
AllCredentials ==
    /\ run.twilio_config.account_sid
    /\ run.twilio_config.auth_token
    /\ run.twilio_config.from_number
    /\ run.twilio_config.to_number

\* C13: throughout the run the provider client is present if and only if
\* the SMS flag was enabled, the provider library importable, all four
\* credentials non-empty and the constructor did not raise; while it is
\* absent no send_sms call reaches the provider or returns true, and
\* monitor_realtime runs on.
C13_ClientIffConfigured ==
    /\ twilio_client <=>
          (run.twilio_config.sms_on_motion /\ run.TWILIO_AVAILABLE
           /\ AllCredentials /\ run.ctor_ok)
    /\ ~twilio_client =>
          /\ ~mainJob.called /\ ~mainJob.ok
          /\ \A i \in DOMAIN tasks : ~tasks[i].called /\ ~tasks[i].ok
          /\ last_sms_time = 0
          /\ ret.st # "raised"

\* The constructor raised although everything was configured: the run
\* went on without a client, to its end.
C13_Witness ==
    /\ run.twilio_config.sms_on_motion
    /\ run.TWILIO_AVAILABLE
    /\ AllCredentials
    /\ ~run.ctor_ok
    /\ ~twilio_client
    /\ pc = "returned"
    /\ unsub = "ok"
    /\ exit_reason = "duration"

\* The .env file sets no camera password, or an empty one.
NoPassword(config) ==
    \/ "CAMERA_PASSWORD" \notin DOMAIN config
    \/ config["CAMERA_PASSWORD"].s = <<>>

\* C14: if the configuration file is missing, or the camera password is
\* absent or empty, the process exits with a non-zero code before the
\* retriever is constructed and before any call to the camera.
C14_FatalConfiguration ==
    (run.pc \notin {"none", "start"}
     /\ (~run.env_file \/ NoPassword(run.config)))
       => /\ run.pc = "exited"
          /\ run.exit > 0
          /\ ~run.constructed
          /\ run.calls = <<>>

\* The process has exited with code 1 on a .env file whose only fault is
\* an empty CAMERA_PASSWORD.
C14_Witness ==
    /\ run.pc = "exited"
    /\ run.env_file
    /\ "CAMERA_PASSWORD" \in DOMAIN run.config
    /\ run.config["CAMERA_PASSWORD"].s = <<>>
    /\ ~SettingRaises(run.config)
    /\ run.exit = 1
    /\ ~run.constructed

\* C15: with downloading enabled at most 5 download attempts are made, for
\* the first 5 recordings of the search result in order, and an attempt
\* that fails is followed by the attempt for the next selected recording,
\* or after the last by the monitoring phase.
C15_DownloadsBounded ==
    [][/\ Len(run'.attempts) <= 5
       /\ \A i \in DOMAIN run'.attempts :
             run'.attempts[i].file_name = run'.vod_files[i].file_name
       /\ (/\ run.pc = "download"
           /\ Len(run'.attempts) = Len(run.attempts) + 1
           /\ run'.attempts[Len(run'.attempts)].result
                 \in {"failed", "mkdir_error"})
             => run'.pc =
                   IF Len(run'.attempts) < 5
                      /\ Len(run'.attempts) < Len(run'.vod_files)
                   THEN "download" ELSE "monitor"]_vars

\* C16: the label of the download file name is vehicle if the vehicle tag
\* is present, else person if the person tag is present, else motion if
\* the motion tag is present, else recording, whatever other tags are
\* present.
C16_LabelPriority ==
    (call.fn = "trigger_str" /\ call.result.st = "returned")
       => call.result.label =
             IF "vehicle" \in call.bc_triggers THEN "vehicle"
             ELSE IF "person" \in call.bc_triggers THEN "person"
             ELSE IF "motion" \in call.bc_triggers THEN "motion"
             ELSE "recording"

\* A recording tagged motion and vehicle, among others, is labelled
\* vehicle.
C16_Witness ==
    /\ call.fn = "trigger_str"
    /\ call.result.st = "returned"
    /\ {"motion", "vehicle", "doorbell"} \subseteq call.bc_triggers
    /\ "person" \notin call.bc_triggers
    /\ call.result.label = "vehicle"

\* The seconds a unit of format_duration stands for, and its rank.
UnitSeconds(unit) ==
    CASE unit = "d" -> 86400 [] unit = "h" -> 3600
      [] unit = "m" -> 60 [] unit = "s" -> 1
UnitRank(unit) ==
    CASE unit = "d" -> 1 [] unit = "h" -> 2 [] unit = "m" -> 3
      [] unit = "s" -> 4
RECURSIVE PartsTotal(_)
PartsTotal(parts) ==
    IF parts = <<>> THEN 0
    ELSE Head(parts).value * UnitSeconds(Head(parts).unit)
            + PartsTotal(Tail(parts))

\* parts lists the days, hours, minutes and seconds of n in that order,
\* without the components that are zero, and "0s" alone for n = 0.
ListsComponents(n, parts) ==
    /\ \A i \in DOMAIN parts :
          /\ parts[i].unit \in {"d", "h", "m", "s"}
          /\ parts[i].unit = "h" => parts[i].value < 24
          /\ parts[i].unit \in {"m", "s"} => parts[i].value < 60
          /\ (n > 0) => parts[i].value > 0
          /\ \A j \in DOMAIN parts :
                i < j => UnitRank(parts[i].unit) < UnitRank(parts[j].unit)
    /\ PartsTotal(parts) = n
    /\ (n = 0) => parts = <<Part(0, "s")>>

\* C17 as claimed: for n >= 0, format_duration(n) lists the days, hours,
\* minutes and seconds of n in that order, leaves out every component
\* that is zero, is "0s" for n = 0, and its components sum back to n; so
\* 0 gives "0s", 90 gives "1m 30s" and 86461 gives "1d 1s".
C17_DurationPartsAsClaimed ==
    (call.fn = "format_duration" /\ call.result.st = "returned")
       => LET n == call.seconds
              parts == call.result.parts
          IN  /\ ListsComponents(n, parts)
              /\ (n = 90) => parts = <<Part(1, "m"), Part(30, "s")>>
              /\ (n = 86461) => parts = <<Part(1, "d"), Part(1, "s")>>

\* C17 as amended: the same, with 86461 giving "1d 1m 1s" (86461 is one
\* day, one minute and one second) and 86401 giving "1d 1s".
C17_DurationParts ==
    (call.fn = "format_duration" /\ call.result.st = "returned")
       => LET n == call.seconds
              parts == call.result.parts
          IN  /\ ListsComponents(n, parts)
              /\ (n = 90) => parts = <<Part(1, "m"), Part(30, "s")>>
              /\ (n = 86461) =>
                    parts = <<Part(1, "d"), Part(1, "m"), Part(1, "s")>>
              /\ (n = 86401) => parts = <<Part(1, "d"), Part(1, "s")>>

\* format_duration(86461) has returned 1d 1m 1s: the hours, which are
\* zero, are left out.
C17_Witness ==
    /\ call.fn = "format_duration"
    /\ call.result.st = "returned"
    /\ call.seconds = 86461
    /\ call.result.parts = <<Part(1, "d"), Part(1, "m"), Part(1, "s")>>

\* A send not forced has reached the provider, which has not refused it.
Reached(j) == ~j.force /\ j.called /\ (j.st = "calling" \/ j.ok)
Apart(t1, t2) == t1 - t2 >= sms_cooldown \/ t2 - t1 >= sms_cooldown

\* C18: under every interleaving of the sends not forced (the motion
\* sends scheduled as tasks, the disk alert), no two of them both reach
\* the provider within one cooldown window of each other.
C18_OneSendPerWindow ==
    /\ \A i \in DOMAIN tasks :
          (Reached(mainJob) /\ Reached(tasks[i]))
             => Apart(mainJob.t, tasks[i].t)
    /\ \A i, k \in DOMAIN tasks :
          (i < k /\ Reached(tasks[i]) /\ Reached(tasks[k]))
             => Apart(tasks[i].t, tasks[k].t)

\* C19: with or without the touchfile feature, the manual re-check of the
\* motion state is made every 10 seconds of elapsed loop time: the first
\* at elapsed 10, each next one 10 elapsed seconds after the one before,
\* and none is overdue once a tick has passed the re-check.
C19_PollEveryTen ==
    /\ next_motion_poll % 10 = 0
    /\ pc = "poll" => elapsed = next_motion_poll
    /\ pc \in {"disk", "disk_wait", "status", "while", "sleep"}
          => elapsed < next_motion_poll

\* C20: after every invocation of the motion state check that read the
\* motion value, the stored flag of the channel equals the value read,
\* whatever else the invocation did: a step that appends an event or
\* changes the flag leaves the flag equal to the camera's motion state.
C20_FlagFollowsRead ==
    [][(motion_events' # motion_events
        \/ last_motion_state' # last_motion_state)
          => /\ Channel \in DOMAIN last_motion_state'
             /\ last_motion_state'[Channel] = motion]_vars

\* The stored flag of the channel as the state check reads it.
StoredFlag(d) == Get(d, Channel, FALSE)

\* C21: the motion state check is idempotent.  Made with the motion value
\* equal to the stored flag, it appends no event and schedules no SMS; and
\* a check that appended the event of a transition leaves the stored flag
\* equal to the value it read, so that the check made again with that
\* value, by the callback or by the poll, appends nothing more.
C21_CheckIdempotent ==
    [][/\ StoredFlag(last_motion_state) = motion
             => /\ motion_events' = motion_events
                /\ Len(tasks') <= Len(tasks)
       /\ motion_events' # motion_events
             => StoredFlag(last_motion_state') = motion']_vars

\* A motion SMS is scheduled in this step: the task list grows by one.
SmsScheduled == Len(tasks') = Len(tasks) + 1

\* The state check changed the events or the flag in this step.
CheckActed ==
    motion_events' # motion_events \/ last_motion_state' # last_motion_state

\* C22: a motion SMS is scheduled only by a check that reads true with the
\* stored flag false, only with sms_on_motion set, and is a send not
\* forced; a check that reads false with the flag true appends an end
\* event and schedules nothing; a check that reads true with the flag
\* false appends a start event whatever becomes of the SMS.
C22_SmsOnStartOnly ==
    [][/\ SmsScheduled
             => /\ motion /\ ~StoredFlag(last_motion_state)
                /\ sms_on_motion
                /\ tasks' = Append(tasks, tasks'[Len(tasks')])
                /\ tasks'[Len(tasks')].kind = "motion"
                /\ ~tasks'[Len(tasks')].force
                /\ tasks'[Len(tasks')].st = "queued"
                /\ motion_events' = Append(motion_events, "motion_start")
       /\ (CheckActed /\ ~motion /\ StoredFlag(last_motion_state))
             => /\ motion_events' = Append(motion_events, "motion_end")
                /\ tasks' = tasks
       /\ (CheckActed /\ motion /\ ~StoredFlag(last_motion_state))
             => motion_events' = Append(motion_events, "motion_start")
       /\ \A i \in DOMAIN tasks : ~tasks[i].force]_vars

\* The start and the end of a motion are recorded; the SMS scheduled for
\* the start was suppressed by the cooldown after an earlier successful
\* send, without a call of the provider.
C22_Witness ==
    /\ last_sms_time > 0
    /\ Len(motion_events) >= 2
    /\ motion_events[1] = "motion_start"
    /\ motion_events[2] = "motion_end"
    /\ \E i \in DOMAIN tasks :
          /\ tasks[i].kind = "motion"
          /\ tasks[i].st = "done"
          /\ ~tasks[i].called
          /\ ~tasks[i].ok

\* The last event recorded is a start.
StartRecorded ==
    /\ motion_events # <<>>
    /\ motion_events[Len(motion_events)] = "motion_start"

\* C23: once a start event is recorded and the camera's motion state is
\* false, the poll of the loop appends the end event without any callback
\* of the device: a poll that reads the value false and stores it, the
\* last event recorded being a start, appends the end event.
C23_PollRecordsEnd ==
    [][(/\ pc = "poll"
        /\ StartRecorded
        /\ ~motion
        /\ last_motion_state' # last_motion_state)
          => motion_events' = Append(motion_events, "motion_end")]_vars

\* A send_sms call is in flight: handed to the executor and not returned.
InFlight(j) == j.st \in {"queued", "calling"}

\* The loop's coroutine is suspended on the send it awaits.
LoopAwaitsSend == pc \in {"tf_wait", "disk_wait"}

\* A step of the loop's own code.
LoopAdvances ==
    \/ LoopHead
    \/ Wake
    \/ TouchfileAbsent
    \/ TouchfileFound
    \/ TouchfileAfterSend
    \/ MotionPoll
    \/ DiskCheckQuiet
    \/ DiskCheckAlert
    \/ DiskAfterSend
    \/ StatusLog

\* The loop is inside a tick, or at the head of a tick the exploration
\* still takes.
LoopRunning ==
    /\ pc \in AwaitPcs \cup SyncPcs
    /\ pc = "while" => TicksExplored

\* C24 as claimed: no send blocks the monitoring loop: while a send of any
\* origin is in flight, the loop's own code can still take its next step.
C24_NoSendBlocksLoop ==
    (LoopRunning /\ (InFlight(mainJob) \/ \E i \in DOMAIN tasks :
                                               InFlight(tasks[i])))
        => ENABLED LoopAdvances

\* C24 as amended: the send of a motion SMS runs in a task of its own and
\* never holds the loop, which can take its next step whatever sends of
\* tasks are in flight.  The send of a touchfile or disk alert is awaited
\* by the loop: while it is in flight the loop is suspended and takes no
\* step, the worker can go on with the send and motion callbacks are
\* still processed; once the send has returned, true or false, the loop
\* can go on, and it goes on with the remaining checks of the same tick,
\* elapsed and the times of the next checks unchanged.
C24_OnlyAwaitedSendsHoldLoop ==
    /\ [](/\ (LoopRunning /\ ~LoopAwaitsSend) => ENABLED LoopAdvances
          /\ InFlight(mainJob)
                => /\ LoopAwaitsSend
                   /\ ~ENABLED LoopAdvances
                   /\ ENABLED (MainSendBegin \/ MainSendEnd)
                   /\ ENABLED Callback
          /\ (LoopAwaitsSend /\ ~InFlight(mainJob))
                => /\ mainJob.st = "done"
                   /\ ENABLED LoopAdvances)
    /\ [][/\ (pc = "tf_wait" /\ pc' # pc)
                => /\ elapsed' = elapsed
                   /\ pc' = PollOrLater(elapsed, next_motion_poll,
                                        next_disk_check, next_status_log)
                   /\ <<next_motion_poll, next_disk_check,
                        next_status_log>>'
                         = <<next_motion_poll, next_disk_check,
                             next_status_log>>
          /\ (pc = "disk_wait" /\ pc' # pc)
                => /\ elapsed' = elapsed
                   /\ pc' = StatusOrLater(elapsed, next_status_log)
                   /\ <<next_touchfile_check, next_motion_poll,
                        next_status_log>>'
                         = <<next_touchfile_check, next_motion_poll,
                             next_status_log>>]_vars

\* The loop is at the head of its next tick after a disk alert whose send
\* called the provider and failed, while the send of a motion SMS is
\* still inside the provider call.
C24_Witness ==
    /\ pc = "while"
    /\ mainJob.kind = "disk"
    /\ mainJob.st = "done"
    /\ mainJob.called
    /\ ~mainJob.ok
    /\ \E i \in DOMAIN tasks : tasks[i].st = "calling"

\* A disk check has been made in this run: each check sets next_disk_check
\* to elapsed plus the check interval.
DiskChecked == next_disk_check > 0

\* C25: with disk monitoring enabled the first disk check is made when
\* monitoring starts, before any sleep of the loop has elapsed, and a
\* later check is made once the check interval has elapsed since the one
\* before: no time has elapsed in the loop without a check made, and a
\* check after the first is entered with elapsed at next_disk_check or
\* later.
C25_DiskCheckAtStart ==
    /\ (disk_monitor_enabled /\ elapsed > 0 /\ pc # "disk") => DiskChecked
    /\ (pc = "disk" /\ ~DiskChecked) => elapsed = 0
    /\ (pc = "disk" /\ DiskChecked) => elapsed >= next_disk_check

\* The step takes the send_sms call j to k: it returns, or it enters the
\* provider call.
SendReturns(j, k) == j.st \in {"queued", "calling"} /\ k.st = "done"
SendCalls(j, k) == j.st = "queued" /\ k.st = "calling"

\* What C26 asks of such a step.
SendSmsContract(j, k) ==
    /\ (SendReturns(j, k) /\ k.ok)
          => /\ j.st = "calling"
             /\ k.called
             /\ last_sms_time' = j.t
    /\ (SendReturns(j, k) /\ ~k.ok) => last_sms_time' = last_sms_time
    /\ (SendReturns(j, k) /\ j.st = "queued")
          => /\ ~k.ok
             /\ ~k.called
             /\ \/ ~twilio_client
                \/ (~j.force /\ now - last_sms_time < sms_cooldown)
    /\ SendCalls(j, k)
          => /\ twilio_client
             /\ k.called
             /\ k.t = now
             /\ last_sms_time' = last_sms_time

\* C26: send_sms returns true only from a provider call that completed,
\* and then last_sms_time is the time the call read at its start; a send
\* that finds no client or is suppressed by the cooldown returns false
\* without calling the provider; every call that returns false, a failed
\* provider call included, leaves last_sms_time as it was; the provider's
\* error ends in the value false and not in an exception.
C26_SendSmsContract ==
    [][/\ SendSmsContract(mainJob, mainJob')
       /\ Len(tasks') = Len(tasks)
             => \A i \in DOMAIN tasks : SendSmsContract(tasks[i], tasks'[i])
       /\ mainJob'.st \in {"none", "queued", "calling", "done"}
       /\ \A i \in DOMAIN tasks' :
             tasks'[i].st \in {"queued", "calling", "done"}]_vars

\* A send has called the provider and returned false after an earlier
\* send succeeded: last_sms_time is still the time of that earlier send.
C26_Witness ==
    /\ last_sms_time > 0
    /\ \/ /\ mainJob.st = "done" /\ mainJob.called /\ ~mainJob.ok
          /\ mainJob.t > last_sms_time
       \/ \E i \in DOMAIN tasks :
             /\ tasks[i].st = "done" /\ tasks[i].called /\ ~tasks[i].ok
             /\ tasks[i].t > last_sms_time

\* monitor_realtime returned without a call of unsubscribe_events: its
\* subscription failed.
SubscribeFailed == pc = "returned" /\ unsub = "none"

\* C27: a failed subscription makes monitor_realtime return an empty list
\* at once, without a call of unsubscribe_events; in that run the loop is
\* never entered and no touchfile check, disk check or motion poll is
\* made; main() goes on to its summary, no exception caught or pending,
\* and to the logout of its finally.
C27_SubscribeFailure ==
    /\ [][(pc = "start" /\ pc' \notin {"start", "while"})
             => /\ pc' = "returned"
                /\ ret' = [st |-> "returned", events |-> <<>>]
                /\ unsub' = "none"]_vars
    /\ [](SubscribeFailed
            => /\ ret = [st |-> "returned", events |-> <<>>]
               /\ elapsed = 0
               /\ exit_reason = "none"
               /\ next_touchfile_check = 0
               /\ next_motion_poll = motion_poll_interval
               /\ next_disk_check = 0
               /\ tf_obs = NoTouch
               /\ usage = NoUsage
               /\ mainJob = NoJob
               /\ run.pc \in {"monitor", "cleanup", "exited"}
               /\ run.caught = "none"
               /\ run.pc = "cleanup" => run.pending = "none"
               /\ run.pc \in {"cleanup", "exited"}
                     => run.calls \in {<<"subscribe_events">>,
                                       <<"subscribe_events", "logout">>}
               /\ run.pc = "exited" => run.calls[Len(run.calls)] = "logout")

\* The subscription failed in a run with the touchfile and the disk
\* monitor enabled; main() has logged out and the process has ended
\* normally.
C27_Witness ==
    /\ SubscribeFailed
    /\ touchfile_enabled
    /\ disk_monitor_enabled
    /\ sms_on_motion
    /\ run.pc = "exited"
    /\ run.exit = 0

\* A send not forced starts in this step, taking the call j to k, less
\* than one cooldown window after the touchfile send of this tick, which
\* returned true.
StartsAfterTouchfileSend(j, k) ==
    /\ j.st = "queued"
    /\ k.st \in {"calling", "done"}
    /\ ~j.force
    /\ tf_obs.sent
    /\ now - tf_obs.at < sms_cooldown

\* A send not forced starts in this step as the first send of the run.
StartsFirst(j, k) ==
    /\ j.st = "queued"
    /\ k.st \in {"calling", "done"}
    /\ ~j.force
    /\ twilio_client
    /\ last_sms_time = 0
    /\ mainJob.st \in {"none", "queued"}
    /\ \A i \in DOMAIN tasks : tasks[i].st = "queued"

Suppressed(k) == k.st = "done" /\ ~k.ok /\ ~k.called

\* C28: a successful touchfile send sets the last_sms_time of the cooldown
\* test to the time it read; every send not forced that starts less than
\* one cooldown window after that time is suppressed; the first send not
\* forced of a run, no send made before it, is not suppressed.
C28_TouchfileSendStartsCooldown ==
    [][/\ (mainJob.kind = "touch" /\ mainJob.st = "calling"
           /\ mainJob'.st = "done" /\ mainJob'.ok)
             => last_sms_time' = mainJob.t
       /\ StartsAfterTouchfileSend(mainJob, mainJob')
             => Suppressed(mainJob')
       /\ StartsFirst(mainJob, mainJob') => mainJob'.st = "calling"
       /\ Len(tasks') = Len(tasks)
             => \A i \in DOMAIN tasks :
                   /\ StartsAfterTouchfileSend(tasks[i], tasks'[i])
                         => Suppressed(tasks'[i])
                   /\ StartsFirst(tasks[i], tasks'[i])
                         => tasks'[i].st = "calling"]_vars

\* C29: in every state after the construction of the retriever, each of
\* sms_on_motion, touchfile_enabled and disk_monitor_enabled set implies
\* that the provider client is present; in a run without a client no
\* touchfile check or disk check is entered and no send is asked for.
C29_FeaturesNeedClient ==
    /\ sms_on_motion => twilio_client
    /\ touchfile_enabled => twilio_client
    /\ disk_monitor_enabled => twilio_client
    /\ ~twilio_client
          => /\ pc \notin {"touch", "tf_wait", "disk", "disk_wait"}
             /\ mainJob = NoJob
             /\ tasks = <<>>

\* The configuration asked for the motion SMS, the touchfile and the disk
\* monitor, with all credentials, but the provider library is missing:
\* no feature is set, and the loop has run a tick without them.
C29_Witness ==
    /\ run.twilio_config.sms_on_motion
    /\ run.twilio_config.touchfile_path
    /\ run.twilio_config.disk_monitor_enabled
    /\ AllCredentials
    /\ ~run.TWILIO_AVAILABLE
    /\ ~sms_on_motion /\ ~touchfile_enabled /\ ~disk_monitor_enabled
    /\ ~twilio_client
    /\ pc = "while"
    /\ elapsed = ShortRun
    /\ motion_events # <<>>

====
